---- MODULE Spec2Model ----
(***************************************************************************)
(* Model of scripts/cloudflare-migration.sh, the DNSimple -> Cloudflare    *)
(* migration runner.  The script is a sequential bash program run under    *)
(* `set -euo pipefail`; one invocation executes one named step (or all of  *)
(* them), talks to two provider APIs through curl, and keeps the zone map  *)
(* in .migration-state/zone-map.json between invocations.                  *)
(*                                                                         *)
(* The state is the on-disk zone map, the position of the running          *)
(* invocation, and what that invocation has sent and printed.  Every       *)
(* blocking interaction (an API call, a DNS lookup, an operator prompt)    *)
(* is resolved nondeterministically inside the action of the loop          *)
(* iteration that makes it.                                                *)
(***************************************************************************)
EXTENDS Integers, Sequences, FiniteSets, TLC

VARIABLES
  errexitArith,  \* does this bash apply errexit to (( )) commands (bash >= 4.1)
  fileExists,    \* zone-map.json exists
  zoneMap,       \* contents of zone-map.json: domain -> ZoneRecord
  pc,            \* position of the running invocation
  cmd,           \* ${1:-all}
  step,          \* step function being executed
  allPos,        \* index in run_all of the step being run (0 outside run_all)
  i,             \* index of the domain (or URL) the current loop is at
  exitCode,      \* exit status of the invocation, -1 while it runs
  exitWhy,       \* what made the invocation terminate
  startStore,    \* the state store as the invocation found it
  calls,         \* requests sent so far by this invocation (api, method, op)
  hist,          \* prompts of run_all acknowledged, steps begun and finished
  ev,            \* what the last action did: prompts, requests, messages
  created,       \* `created` of step_create_records
  skipped,       \* `skipped` of step_create_records
  count,         \* `count` of clear_zone_records
  pending,       \* record ids of the target zone still to delete
  remaining,     \* source records still to read in the while loop
  track          \* the records of one target zone and of its source zone,
                 \* when the model follows them

vars == <<errexitArith, fileExists, zoneMap, pc, cmd, step, allPos, i,
          exitCode, exitWhy, startStore, calls, hist, ev, created, skipped,
          count, pending, remaining, track>>

store  == <<fileExists, zoneMap>>
locals == <<created, skipped, count, pending, remaining>>

----------------------------------------------------------------------------
(* Bounds *)

NumDomains  == 2   \* how many of the DOMAINS are migrated in the model
MaxExisting == 1   \* records a target zone holds when it is listed
MaxSource   == 2   \* records the source provider returns for a domain
MaxLabels   == 3   \* labels of an SRV record name given to the SRV branch
MaxRuns     == 2   \* how many times the DNS setup script is run in a row

----------------------------------------------------------------------------
(* Configuration *)

DOMAINS == <<"eewby.com", "ellastrickland.com", "idlefusion.com",
             "katiestrickland.com", "mstrick.com">>

Min(a, b) == IF a < b THEN a ELSE b

\* the last NumDomains entries of DOMAINS (mstrick.com, which
\* step_create_redirects needs, is the last one)
Domains ==
  SubSeq(DOMAINS, Len(DOMAINS) - Min(NumDomains, Len(DOMAINS)) + 1, Len(DOMAINS))

DomainSet == {Domains[k] : k \in 1..Len(Domains)}

RedirectDomain == "mstrick.com"

RunEasy == "runeasy.app"

\* all_domains of step_unlock_domains
AllDomains == Append(Domains, RunEasy)

NumUrls == 7

Steps == {"add-zones", "create-records", "create-redirects", "switch-ns",
          "verify", "unlock"}

\* run_all with the cutover before the records exist
StepOrder_Swapped == <<"add-zones", "switch-ns", "create-redirects",
                       "create-records", "verify", "unlock">>

\* the order in which run_all calls the steps
StepOrder == <<"add-zones", "create-records", "create-redirects",
               "switch-ns", "verify", "unlock">>

Args == Steps \cup {"all", "", "status"}

\* a case statement on "$1" without the default
Dispatch_NoDefault(a) == a

\* case "${1:-all}"
Dispatch(a) == IF a = "" THEN "all" ELSE a

----------------------------------------------------------------------------
(* Events: what an action sent, asked and printed *)

NoBody == [none |-> TRUE]

Call(api, method, op, dom, ok, body) ==
  [kind |-> "call", api |-> api, method |-> method, op |-> op, dom |-> dom,
   ok |-> ok, level |-> "-", body |-> body]

Prompt(op, dom, acked) ==
  [kind |-> "prompt", api |-> "-", method |-> "-", op |-> op, dom |-> dom,
   ok |-> acked, level |-> "-", body |-> NoBody]

Report(level, op, dom) ==
  [kind |-> "report", api |-> "-", method |-> "-", op |-> op, dom |-> dom,
   ok |-> TRUE, level |-> level, body |-> NoBody]

\* $1 of an invocation ("" when there is none)
Argv(a) ==
  [kind |-> "argv", api |-> "-", method |-> "-", op |-> a, dom |-> "-",
   ok |-> TRUE, level |-> "-", body |-> NoBody]

Record(rec, dom) ==
  [kind |-> "record", api |-> "-", method |-> "-", op |-> rec.type, dom |-> dom,
   ok |-> TRUE, level |-> "-", body |-> rec]

\* what came back for a request: the HTTP outcome and the JSON body
Answer(op, dom, resp) ==
  [kind |-> "answer", api |-> "-", method |-> "-", op |-> op, dom |-> dom,
   ok |-> resp.http = "2xx" /\ resp.body.success = "true", level |-> resp.http,
   body |-> resp.body]

Sent(e) == [api |-> e.api, method |-> e.method, op |-> e.op]

CallsOf(evs) == {Sent(evs[k]) : k \in {n \in 1..Len(evs) : evs[n].kind = "call"}}

----------------------------------------------------------------------------
(* Provider responses and how curl and jq read them *)

ProviderZone(d) ==
  [id |-> "zone-" \o d, name_servers |-> <<"ns1." \o d, "ns2." \o d>>]

EmptyBody == [empty |-> TRUE, success |-> "", result |-> <<>>, message |-> ""]

Json(success, result, message) ==
  [empty |-> FALSE, success |-> success, result |-> result, message |-> message]

Resp(http, body) == [http |-> http, body |-> body]

\* curl -sf: the body on a 2xx answer, nothing and a non-zero status otherwise
CurlF(resp) ==
  IF resp.http = "2xx" THEN [rc |-> 0, out |-> resp.body]
  ELSE [rc |-> 22, out |-> EmptyBody]

\* jq -r '.success'
JqSuccess(body) == IF body.empty THEN "" ELSE body.success

\* jq -r '.errors[0].message // "unknown"'
JqErrorMsg(body) ==
  IF body.empty THEN ""
  ELSE IF body.message = "" THEN "unknown" ELSE body.message

\* grep -qi "already exists"
GrepAlreadyExists(msg) == msg \in {"zone already exists"}

\* jq -r '.result[0].id' and '.result[0].name_servers[n]'
JqFirstId(body) ==
  IF Len(body.result) = 0 THEN "null" ELSE body.result[1].id

JqFirstNs(body, n) ==
  IF Len(body.result) = 0 THEN "null" ELSE body.result[1].name_servers[n]

\* jq -r '.result[0].id // empty'
JqFirstIdOrEmpty(body) ==
  IF Len(body.result) = 0 THEN "" ELSE body.result[1].id

JqFirstNsOrEmpty(body, n) ==
  IF Len(body.result) = 0 THEN "" ELSE body.result[1].name_servers[n]

----------------------------------------------------------------------------
(* State store *)

EmptyMap == [d \in {} |-> NoBody]

\* a save that writes a fresh object instead of updating the map
SaveZone_Clobber(map, d, z, n1, n2) ==
  [x \in {d} |-> [zone_id |-> z, nameservers |-> <<n1, n2>>]]

\* jq '.[$d] = {zone_id: $z, nameservers: [$n1, $n2]}' > zone-map.json
SaveZone(map, d, z, n1, n2) ==
  [x \in (DOMAIN map) \cup {d} |->
     IF x = d THEN [zone_id |-> z, nameservers |-> <<n1, n2>>] ELSE map[x]]

\* zone_id_for that never finds a saved id
zone_id_for_Blind(d) == ""

\* zone_id_for: jq -r '.[$d].zone_id // empty' (the file is known to exist)
zone_id_for(d) == IF d \in DOMAIN zoneMap THEN zoneMap[d].zone_id ELSE ""

\* a read that takes the two nameservers in the other order
ns_at_Swapped(d, n) ==
  IF d \in DOMAIN zoneMap THEN zoneMap[d].nameservers[3 - n] ELSE "null"

\* jq -r '.[$d].nameservers[n]'
ns_at(d, n) == IF d \in DOMAIN zoneMap THEN zoneMap[d].nameservers[n] ELSE "null"

----------------------------------------------------------------------------
(* Termination *)

Exit(code, why) ==
  /\ pc' = "exited"
  /\ exitCode' = code
  /\ exitWhy' = why

Emit(evs) ==
  /\ ev' = evs
  /\ calls' = calls \cup CallsOf(evs)

\* a confirm that returns whatever the operator does
confirm_Always(acked) == TRUE

\* confirm: `read` returns only when the operator presses Enter; Ctrl+C (or
\* end of input, under set -e) ends the script inside confirm
confirm(acked) == acked

----------------------------------------------------------------------------
(* Responses the providers can give *)

\* what the script calls a failed API call: no 2xx answer, or success=false
CallOk(resp) == resp.http = "2xx" /\ resp.body.success = "true"

\* POST /zones
CreateZoneResponses(d) ==
  { Resp("2xx", Json("true", <<ProviderZone(d)>>, "")),
    Resp("2xx", Json("false", <<>>, "zone already exists")),
    Resp("2xx", Json("false", <<>>, "invalid zone name")),
    Resp("2xx", Json("false", <<>>, "")),
    Resp("4xx", Json("false", <<>>, "zone already exists")),
    Resp("neterr", EmptyBody) }

\* GET /zones?name=<domain>
ZoneLookupResponses(d) ==
  { Resp("2xx", Json("true", <<ProviderZone(d)>>, "")),
    Resp("2xx", Json("true", <<>>, "")),
    Resp("4xx", Json("false", <<>>, "forbidden")),
    Resp("neterr", EmptyBody) }

\* GET /user/tokens/verify
CfVerifyResponses ==
  { Resp("2xx", [empty |-> FALSE, success |-> "true", status |-> "active"]),
    Resp("2xx", [empty |-> FALSE, success |-> "true", status |-> "disabled"]),
    Resp("4xx", [empty |-> FALSE, success |-> "false", status |-> "null"]),
    Resp("neterr", [empty |-> TRUE, success |-> "", status |-> ""]) }

\* GET /v2/<account>
DsAccountResponses ==
  { Resp("2xx", [empty |-> FALSE, success |-> "true", plan |-> "personal"]),
    Resp("2xx", [empty |-> FALSE, success |-> "true", plan |-> "null"]),
    Resp("4xx", [empty |-> FALSE, success |-> "false", plan |-> "null"]),
    Resp("neterr", [empty |-> TRUE, success |-> "", plan |-> ""]) }

\* cf GET /user/tokens/verify | jq -r '.result.status' || echo "failed"
cf_status(resp) == IF resp.http = "2xx" THEN resp.body.status ELSE "failed"

\* ds GET "" | jq -r '.data.plan_identifier' || echo "failed"
ds_plan(resp) == IF resp.http = "2xx" THEN resp.body.plan ELSE "failed"

CfTokenAccepted(resp) == cf_status(resp) = "active"

\* a DNSimple check without its exit 1
DsTokenAccepted_Any(resp) == TRUE

DsTokenAccepted(resp) == ds_plan(resp) # "failed"

----------------------------------------------------------------------------
(* The records of a target zone, when they are followed *)

\* the zone's records are not followed: the provider's answers are free
Untracked ==
  [on |-> FALSE, dom |-> "-", zone |-> <<>>, source |-> <<>>, run |-> 0,
   after1 |-> <<>>]

\* the target zone of domain d is followed record by record
Tracked(d) == track.on /\ track.dom = d

----------------------------------------------------------------------------
(* Initial state: nothing has run, there is no state file *)

Init ==
  /\ errexitArith \in BOOLEAN
  /\ fileExists = FALSE
  /\ zoneMap = EmptyMap
  /\ pc = "idle"
  /\ cmd = "none"
  /\ step = "none"
  /\ allPos = 0
  /\ i = 1
  /\ exitCode = 0
  /\ exitWhy = "-"
  /\ startStore = [exists |-> FALSE, map |-> EmptyMap]
  /\ calls = {}
  /\ hist = <<>>
  /\ ev = <<>>
  /\ created = 0
  /\ skipped = 0
  /\ count = 0
  /\ pending = 0
  /\ remaining = 0
  /\ track = Untracked

\* the loop goes on with the next domain, or the step function is at its end
AdvanceTo(n, loopPc) ==
  /\ i' = i + 1
  /\ pc' = IF i >= n THEN "return" ELSE loopPc
  /\ UNCHANGED <<exitCode, exitWhy>>

Advance(n) == AdvanceTo(n, pc)

\* (( v++ )) has status 1 when v was 0; under set -e that ends the script
\* in a bash that applies errexit to arithmetic commands
PostIncrFails(v) == errexitArith /\ v = 0

----------------------------------------------------------------------------
(* CLI entry point *)

\* a shell that accepts `local` outside a function
LocalOutsideFunctionFails_Allowed == FALSE

\* `local` is used outside any function in the verify branch
LocalOutsideFunctionFails == TRUE

\* the loop of the verify branch over DOMAINS, from domain k on, with the
\* lookup answers resps: the map it has written and where it stopped
RECURSIVE VerifyPreload(_, _, _)
VerifyPreload(k, map, resps) ==
  IF k > Len(Domains) THEN [map |-> map, last |-> Len(Domains), rc |-> 0]
  ELSE LET d      == Domains[k]
           result == CurlF(resps[d])
           zid    == JqFirstIdOrEmpty(result.out)
       IN IF result.rc # 0 THEN [map |-> map, last |-> k, rc |-> result.rc]
          ELSE VerifyPreload(k + 1,
                 IF zid # ""
                 THEN SaveZone(map, d, zid, JqFirstNsOrEmpty(result.out, 1),
                               JqFirstNsOrEmpty(result.out, 2))
                 ELSE map,
                 resps)

PreloadCalls(n) ==
  [k \in 1..n |-> Call("cf", "GET", "zones_by_name", Domains[k], TRUE, NoBody)]

Invoke ==
  /\ pc \in {"idle", "exited"}
  /\ \E a \in Args, tokensSet \in BOOLEAN :
       /\ cmd' = Dispatch(a)
       /\ startStore' = [exists |-> fileExists, map |-> zoneMap]
       /\ hist' = <<>>
       /\ step' = "none"
       /\ allPos' = 0
       /\ i' = 1
       /\ created' = 0 /\ skipped' = 0 /\ count' = 0
       /\ pending' = 0 /\ remaining' = 0
       /\ UNCHANGED <<errexitArith, track>>
       /\ IF ~tokensSet
          THEN \* ${CF_API_TOKEN:?...} / ${DS_API_TOKEN:?...}
               /\ ev' = <<Argv(a), Report("err", "token_unset", "-")>>
               /\ calls' = {}
               /\ Exit(1, "token_unset")
               /\ UNCHANGED store
          ELSE IF Dispatch(a) \notin Steps \cup {"all"}
          THEN /\ ev' = <<Argv(a), Report("info", "usage", "-")>>
               /\ calls' = {}
               /\ Exit(1, "usage")
               /\ UNCHANGED store
          ELSE IF Dispatch(a) = "verify" /\ ~fileExists
          THEN \* no state file: mkdir -p, echo '{}' > zone-map.json, then
               \* the loop that fetches the zone ids
               /\ fileExists' = TRUE
               /\ IF LocalOutsideFunctionFails
                  THEN /\ zoneMap' = EmptyMap
                       /\ ev' = <<Argv(a), Report("info", "no_state_file", "-"),
                                  Report("err", "local_outside_function", "-")>>
                       /\ calls' = {}
                       /\ Exit(1, "errexit")
                  ELSE \E resps \in [DomainSet -> UNION {ZoneLookupResponses(d) : d \in DomainSet}] :
                         LET run == VerifyPreload(1, EmptyMap, resps)
                         IN /\ zoneMap' = run.map
                            /\ ev' = <<Argv(a)>> \o PreloadCalls(run.last)
                            /\ calls' = CallsOf(PreloadCalls(run.last))
                            /\ IF run.rc # 0
                               THEN Exit(run.rc, "errexit")
                               ELSE /\ pc' = "validate_cf"
                                    /\ exitCode' = -1
                                    /\ exitWhy' = "-"
          ELSE /\ ev' = <<Argv(a)>>
               /\ calls' = {}
               /\ pc' = "validate_cf"
               /\ exitCode' = -1
               /\ exitWhy' = "-"
               /\ UNCHANGED store

----------------------------------------------------------------------------
(* validate_tokens *)

ValidateCf ==
  /\ pc = "validate_cf"
  /\ \E resp \in CfVerifyResponses :
       /\ Emit(<<Call("cf", "GET", "tokens_verify", "-", CallOk(resp), NoBody)>>)
       /\ IF CfTokenAccepted(resp)
          THEN pc' = "validate_ds" /\ UNCHANGED <<exitCode, exitWhy>>
          ELSE Exit(1, "cf_token")
  /\ UNCHANGED <<errexitArith, track, store, cmd, step, allPos, i, startStore,
                 hist, locals>>

ValidateDs ==
  /\ pc = "validate_ds"
  /\ \E resp \in DsAccountResponses :
       /\ Emit(<<Call("ds", "GET", "account", "-", CallOk(resp), NoBody)>>)
       /\ IF DsTokenAccepted(resp)
          THEN IF cmd = "all"
               THEN /\ pc' = "confirm"
                    /\ allPos' = 1
                    /\ UNCHANGED <<step, exitCode, exitWhy>>
               ELSE /\ pc' = "begin"
                    /\ step' = cmd
                    /\ UNCHANGED <<allPos, exitCode, exitWhy>>
          ELSE Exit(1, "ds_token") /\ UNCHANGED <<step, allPos>>
  /\ UNCHANGED <<errexitArith, track, store, cmd, i, startStore, hist, locals>>

----------------------------------------------------------------------------
(* run_all: the prompt before each step, and what follows a step *)

ConfirmStep ==
  /\ pc = "confirm"
  /\ \E acked \in BOOLEAN :
       /\ Emit(<<Prompt("step", StepOrder[allPos], acked)>>)
       /\ IF confirm(acked)
          THEN /\ pc' = "begin"
               /\ step' = StepOrder[allPos]
               /\ hist' = Append(hist, <<"ack", StepOrder[allPos]>>)
               /\ UNCHANGED <<exitCode, exitWhy>>
          ELSE Exit(130, "abort") /\ UNCHANGED <<step, hist>>
  /\ UNCHANGED <<errexitArith, track, store, cmd, allPos, i, startStore, locals>>

StepPc(s) ==
  CASE s = "add-zones"        -> "add_zones"
    [] s = "create-records"   -> "create_records"
    [] s = "create-redirects" -> "create_redirects"
    [] s = "switch-ns"        -> "switch_ns"
    [] s = "verify"           -> "verify_zones"
    [] s = "unlock"           -> "unlock"

\* the head of a step function: its banner, and for step_add_zones the
\* creation of the state directory and of an empty zone map
BeginStep ==
  /\ pc = "begin"
  /\ pc' = StepPc(step)
  /\ i' = 1
  /\ hist' = Append(hist, <<"begin", step>>)
  /\ Emit(<<Report("info", "header", step)>>)
  /\ IF step = "add-zones" /\ ~fileExists
     THEN fileExists' = TRUE /\ zoneMap' = EmptyMap
     ELSE UNCHANGED store
  /\ UNCHANGED <<errexitArith, track, cmd, step, allPos, exitCode, exitWhy,
                 startStore, locals>>

\* the step function has returned 0
StepReturn ==
  /\ pc = "return"
  /\ hist' = Append(hist, <<"end", step>>)
  /\ Emit(<<Report("info", "footer", step)>>)
  /\ IF cmd = "all" /\ allPos < Len(StepOrder)
     THEN /\ pc' = "confirm"
          /\ allPos' = allPos + 1
          /\ UNCHANGED <<exitCode, exitWhy>>
     ELSE Exit(0, "ok") /\ UNCHANGED allPos
  /\ i' = 1
  /\ UNCHANGED <<errexitArith, track, store, cmd, step, startStore, locals>>

----------------------------------------------------------------------------
(* step_add_zones *)

AddZonesDomain ==
  /\ pc = "add_zones"
  /\ LET d == Domains[i] IN
     IF zone_id_for(d) # ""
     THEN /\ Emit(<<Report("info", "already_added", d)>>)
          /\ Advance(Len(Domains))
          /\ UNCHANGED store
     ELSE \E resp \in CreateZoneResponses(d) :
       LET result == CurlF(resp).out
           post   == Call("cf", "POST", "zones", d, CallOk(resp), [name |-> d])
           ans    == Answer("zones", d, resp)
       IN IF JqSuccess(result) = "true"
          THEN /\ zoneMap' = SaveZone(zoneMap, d, result.result[1].id,
                                      result.result[1].name_servers[1],
                                      result.result[1].name_servers[2])
               /\ Emit(<<post, ans, Report("info", "zone_added", d)>>)
               /\ Advance(Len(Domains))
               /\ UNCHANGED fileExists
          ELSE IF GrepAlreadyExists(JqErrorMsg(result))
          THEN \E resp2 \in ZoneLookupResponses(d) :
                 LET found == CurlF(resp2)
                     get   == Call("cf", "GET", "zones_by_name", d, CallOk(resp2), NoBody)
                     ans2  == Answer("zones_by_name", d, resp2)
                 IN IF found.rc # 0
                    THEN /\ Emit(<<post, ans, get, ans2>>)
                         /\ Exit(found.rc, "errexit")
                         /\ UNCHANGED <<store, i>>
                    ELSE /\ zoneMap' = SaveZone(zoneMap, d, JqFirstId(found.out),
                                                JqFirstNs(found.out, 1),
                                                JqFirstNs(found.out, 2))
                         /\ Emit(<<post, ans, get, ans2,
                                  Report("info", "zone_added", d)>>)
                         /\ Advance(Len(Domains))
                         /\ UNCHANGED fileExists
          ELSE /\ Emit(<<post, ans, Report("err", "zone_create_failed", d)>>)
               /\ Advance(Len(Domains))
               /\ UNCHANGED store
  /\ UNCHANGED <<errexitArith, track, cmd, step, allPos, startStore, hist, locals>>

----------------------------------------------------------------------------
(* step_create_records: source records and their transformation *)

RecordTypes == {"A", "AAAA", "CNAME", "ALIAS", "MX", "TXT", "SRV", "URL", "CAA"}

ContentOf(t) ==
  CASE t = "A"     -> "203.0.113.7"
    [] t = "AAAA"  -> "2001:db8::7"
    [] t = "CNAME" -> "target.example.net"
    [] t = "ALIAS" -> "apex.example.net"
    [] t = "MX"    -> "mail.example.net"
    [] t = "TXT"   -> "v=spf1 -all"
    [] t = "SRV"   -> "10 5060 sip.example.com."
    [] t = "URL"   -> "https://example.net/hire"
    [] OTHER       -> "0 issue ca.example.net"

NamesOf(t) ==
  CASE t = "SRV"                           -> {"_sip._tcp"}
    [] t \in {"A", "CNAME", "ALIAS", "URL"} -> {"", "www"}
    [] t = "AAAA"                          -> {"www"}
    [] OTHER                               -> {""}

\* .priority of a source record, as JSON text (null when it has none)
PrioritiesOf(t) ==
  CASE t = "MX"  -> {"null", "0", "5"}
    [] t = "SRV" -> {"null", "5"}
    [] OTHER     -> {"null"}

\* records of the zone's owner
UserRecords ==
  UNION { { [type |-> t, name |-> n, content |-> ContentOf(t), priority |-> p,
             system_record |-> FALSE] :
            n \in NamesOf(t), p \in PrioritiesOf(t) } :
          t \in RecordTypes }

\* records the source provider manages itself (SOA, NS) or flags as its own
SystemRecords ==
  { [type |-> t, name |-> "", content |-> ContentOf(t), priority |-> "null",
     system_record |-> TRUE] : t \in {"SOA", "NS", "URL"} }

\* the records a source zone can hold (.data[] of the DNSimple answer)
SourceRecords == UserRecords \cup SystemRecords

Quote(str) == "\"" \o str \o "\""

\* a reading of the flag that takes no record for a system record
IsSystemRecord_Never(rec) == FALSE

\* Skip system records: [[ "$system_record" == "true" ]]
IsSystemRecord(rec) == rec.system_record

\* a name that is passed on as it is
cf_name_Keep(name) == name

\* Map empty name to @ for Cloudflare
cf_name(name) == IF name = "" THEN "@" ELSE name

\* jq -r '.priority // empty': nothing for null and false, the value otherwise
JqOrEmpty(v) == IF v \in {"null", "false"} THEN "" ELSE v

\* an expansion that never substitutes the default
Default_Keep(value, dflt) == value

\* ${priority:-10}
Default(value, dflt) == IF value = "" THEN dflt ELSE value

NoPayload == [type |-> "-"]

\* the characters of the strings that the SRV branch takes apart
Chars(str) ==
  CASE str = "_sip._tcp" -> <<"_", "s", "i", "p", ".", "_", "t", "c", "p">>
    [] str = "10 5060 sip.example.com." ->
         <<"1", "0", " ", "5", "0", "6", "0", " ", "s", "i", "p", ".", "e", "x",
           "a", "m", "p", "l", "e", ".", "c", "o", "m", ".">>

RECURSIVE Join(_)
Join(cs) == IF cs = <<>> THEN "" ELSE Head(cs) \o Join(Tail(cs))

\* the fields of cs between occurrences of sep
RECURSIVE Split(_, _)
Split(cs, sep) ==
  IF cs = <<>> THEN << <<>> >>
  ELSE LET rest == Split(Tail(cs), sep)
       IN IF Head(cs) = sep
          THEN << <<>> >> \o rest
          ELSE << <<Head(cs)>> \o rest[1] >> \o Tail(rest)

NonEmpty(f) == f # <<>>

\* awk '{print $n}': fields are separated by runs of blanks
AwkField(cs, n) ==
  LET f == SelectSeq(Split(cs, " "), NonEmpty)
  IN IF n <= Len(f) THEN f[n] ELSE <<>>

\* cut -d. -fn: a line without the delimiter is printed whole
CutField(cs, n) ==
  LET f == Split(cs, ".")
  IN IF Len(f) = 1 THEN cs ELSE IF n <= Len(f) THEN f[n] ELSE <<>>

\* a sed that leaves the target as it is
StripTrailingDot_Keep(cs) == cs

\* sed 's/\.$//'
StripTrailingDot(cs) ==
  IF cs # <<>> /\ cs[Len(cs)] = "." THEN SubSeq(cs, 1, Len(cs) - 1) ELSE cs

\* a default branch that forgets (( skipped++ ))
SkipUnknown_Uncounted == [create |-> FALSE, skip |-> FALSE, payload |-> NoPayload]

\* the SRV branch: weight, port and target from the content, service and
\* proto from the record name
SrvParseChars(name, content) ==
  [service |-> Join(CutField(name, 1)),
   proto   |-> Join(CutField(name, 2)),
   weight  |-> Join(AwkField(content, 1)),
   port    |-> Join(AwkField(content, 2)),
   target  |-> Join(StripTrailingDot(AwkField(content, 3)))]

SrvParse(name, content) == SrvParseChars(Chars(name), Chars(content))

\* SrvParse of every SRV record a source zone can hold
SrvParsed ==
  [nc \in {<<r.name, r.content>> : r \in {x \in SourceRecords : x.type = "SRV"}}
     |-> SrvParse(nc[1], nc[2])]

\* the default branch of the case statement: warn, (( skipped++ ))
SkipUnknown == [create |-> FALSE, skip |-> TRUE, payload |-> NoPayload]

\* a URL branch that creates the placeholder at the apex too
UrlPlaceholder_Apex(name) ==
  [create |-> TRUE, skip |-> TRUE,
   payload |-> [type |-> Quote("A"), name |-> Quote(name),
                content |-> Quote("192.0.2.1"), ttl |-> "1",
                proxied |-> "true"]]

\* the URL branch: a proxied A record unless the name is the apex, and
\* (( skipped++ )) in both cases
UrlPlaceholder(name) ==
  [create |-> name # "@", skip |-> TRUE,
   payload |-> [type |-> Quote("A"), name |-> Quote(name),
                content |-> Quote("192.0.2.1"), ttl |-> "1",
                proxied |-> "true"]]

\* the case statement over $type: the request body built for the record (its
\* fields as they are written into the JSON text), whether create_cf_record
\* is called, and whether (( skipped++ )) is run
Transform(rec, domain) ==
  LET name == cf_name(rec.name) IN
  CASE rec.type \in {"A", "AAAA"} ->
         [create |-> TRUE, skip |-> FALSE,
          payload |-> [type |-> Quote(rec.type), name |-> Quote(name),
                       content |-> Quote(rec.content), ttl |-> "1",
                       proxied |-> "false"]]
    [] rec.type \in {"CNAME", "ALIAS"} ->
         [create |-> TRUE, skip |-> FALSE,
          payload |-> [type |-> Quote("CNAME"), name |-> Quote(name),
                       content |-> Quote(rec.content), ttl |-> "1",
                       proxied |-> "false"]]
    [] rec.type = "MX" ->
         [create |-> TRUE, skip |-> FALSE,
          payload |-> [type |-> Quote("MX"), name |-> Quote(name),
                       content |-> Quote(rec.content), ttl |-> "1",
                       priority |-> Default(JqOrEmpty(rec.priority), "10")]]
    [] rec.type = "TXT" ->
         [create |-> TRUE, skip |-> FALSE,
          payload |-> [type |-> Quote("TXT"), name |-> Quote(name),
                       content |-> Quote(rec.content), ttl |-> "1"]]
    [] rec.type = "SRV" ->
         [create |-> TRUE, skip |-> FALSE,
          payload |-> [type |-> Quote("SRV"),
                       name |-> Quote(rec.name \o "." \o domain),
                       service |-> Quote(SrvParsed[<<rec.name, rec.content>>].service),
                       proto |-> Quote(SrvParsed[<<rec.name, rec.content>>].proto),
                       zone |-> Quote(domain),
                       priority |-> Default(JqOrEmpty(rec.priority), "0"),
                       weight |-> SrvParsed[<<rec.name, rec.content>>].weight,
                       port |-> SrvParsed[<<rec.name, rec.content>>].port,
                       target |-> Quote(SrvParsed[<<rec.name, rec.content>>].target)]]
    [] rec.type = "URL" -> UrlPlaceholder(name)
    [] OTHER -> SkipUnknown

\* GET /zones/<id>/dns_records: how many record ids the zone holds
ListRecordsResponses ==
  { Resp("2xx", [empty |-> FALSE, success |-> "true", ids |-> n]) : n \in 0..MaxExisting }
  \cup { Resp("4xx", [empty |-> FALSE, success |-> "false", ids |-> 0]),
         Resp("neterr", [empty |-> TRUE, success |-> "", ids |-> 0]) }

\* the listing of a zone that is followed counts the records it holds
ListRecordsFor(d) ==
  IF Tracked(d)
  THEN { Resp("2xx", [empty |-> FALSE, success |-> "true",
                      ids |-> Len(track.zone)]) }
  ELSE ListRecordsResponses

\* GET /zones/<domain>/records on the source: how many records it returns
SourceRecordsResponses ==
  { Resp("2xx", [empty |-> FALSE, success |-> "true", total |-> n]) : n \in 0..MaxSource }
  \cup { Resp("4xx", [empty |-> FALSE, success |-> "false", total |-> 0]),
         Resp("neterr", [empty |-> TRUE, success |-> "", total |-> 0]) }

\* answers to a request that changes something: accepted or refused (a lost
\* request reads the same as a refused one through curl -sf)
WriteResponses ==
  { Resp("2xx", Json("true", <<>>, "")),
    Resp("4xx", Json("false", <<>>, "invalid")) }

\* the source zone of a domain that is followed returns its records
SourceRecordsFor(d) ==
  IF Tracked(d)
  THEN { Resp("2xx", [empty |-> FALSE, success |-> "true",
                      total |-> Len(track.source)]) }
  ELSE SourceRecordsResponses

\* a zone that is followed accepts every write
WriteResponsesFor(d) ==
  IF Tracked(d) THEN { Resp("2xx", Json("true", <<>>, "")) } ELSE WriteResponses

\* a create_cf_record that returns 0 whatever the answer
create_cf_record_Always(resp) == TRUE

\* create_cf_record: returns 0 when the answer has success = true, else 1
create_cf_record(resp) == JqSuccess(CurlF(resp).out) = "true"

\* the record the while loop reads next
NextSourceRecords(d) ==
  IF Tracked(d)
  THEN { track.source[Len(track.source) - remaining + 1] }
  ELSE SourceRecords

\* one domain of the for loop, up to the listing of clear_zone_records
CreateRecordsDomain ==
  /\ pc = "create_records"
  /\ LET d == Domains[i] IN
     IF ~fileExists
     THEN \* jq cannot open zone-map.json
          /\ Emit(<<Report("stderr", "jq_cannot_open", "-")>>)
          /\ Exit(2, "errexit")
          /\ UNCHANGED <<i, count, pending>>
     ELSE IF zone_id_for(d) = ""
     THEN /\ Emit(<<Report("err", "no_zone_id", d)>>)
          /\ Advance(Len(Domains))
          /\ UNCHANGED <<count, pending>>
     ELSE \E resp \in ListRecordsFor(d) :
            /\ Emit(<<Call("cf", "GET", "dns_records", d, CallOk(resp), NoBody)>>)
            /\ IF CurlF(resp).rc # 0
               THEN Exit(CurlF(resp).rc, "errexit") /\ UNCHANGED <<count, pending>>
               ELSE /\ pending' = resp.body.ids
                    /\ count' = 0
                    /\ pc' = IF resp.body.ids > 0 THEN "clear" ELSE "fetch"
                    /\ UNCHANGED <<exitCode, exitWhy>>
            /\ UNCHANGED i
  /\ UNCHANGED <<errexitArith, track, store, cmd, step, allPos, startStore, hist,
                 created, skipped, remaining>>

\* a clear_zone_records that is handed the zone of the domain before
ClearedZone_Previous(k) == Domains[IF k > 1 THEN k - 1 ELSE k]

\* the zone clear_zone_records works on: $1, the zone of the loop's domain
ClearedZone(k) == Domains[k]

\* one round of the for loop of clear_zone_records
ClearRecord ==
  /\ pc = "clear"
  /\ pending > 0
  /\ \E resp \in WriteResponsesFor(Domains[i]) :
       /\ Emit(<<Call("cf", "DELETE", "dns_record", ClearedZone(i), CallOk(resp), NoBody)>>
               \o IF pending = 1 /\ ~PostIncrFails(count)
                  THEN <<Report("warn", "cleared", Domains[i])>> ELSE <<>>)
       /\ track' = IF Tracked(ClearedZone(i)) /\ CallOk(resp)
                   THEN [track EXCEPT !.zone = Tail(@)]
                   ELSE track
  /\ count' = count + 1
  /\ pending' = pending - 1
  /\ IF PostIncrFails(count)
     THEN Exit(1, "errexit")
     ELSE /\ pc' = IF pending = 1 THEN "fetch" ELSE "clear"
          /\ UNCHANGED <<exitCode, exitWhy>>
  /\ UNCHANGED <<errexitArith, store, cmd, step, allPos, i, startStore,
                 hist, created, skipped, remaining>>

\* Fetch all records from DNSimple
FetchSource ==
  /\ pc = "fetch"
  /\ \E resp \in SourceRecordsFor(Domains[i]) :
       IF CurlF(resp).rc # 0
       THEN /\ Emit(<<Call("ds", "GET", "records", Domains[i], FALSE, NoBody)>>)
            /\ Exit(CurlF(resp).rc, "errexit")
            /\ UNCHANGED <<created, skipped, remaining>>
       ELSE /\ Emit(<<Call("ds", "GET", "records", Domains[i], TRUE, NoBody),
                      Report("info", "fetched", Domains[i])>>)
            /\ remaining' = resp.body.total
            /\ created' = 0
            /\ skipped' = 0
            /\ pc' = "records"
            /\ UNCHANGED <<exitCode, exitWhy>>
  /\ UNCHANGED <<errexitArith, track, store, cmd, step, allPos, i, startStore,
                 hist, count, pending>>

\* one round of the while loop: one source record
ProcessRecord ==
  /\ pc = "records"
  /\ remaining > 0
  /\ remaining' = remaining - 1
  /\ \E rec \in NextSourceRecords(Domains[i]) :
       LET d == Domains[i]
           t == Transform(rec, d)
       IN IF IsSystemRecord(rec)
          THEN /\ Emit(<<Record(rec, d)>>)
               /\ UNCHANGED <<pc, exitCode, exitWhy, created, skipped, track>>
          ELSE \E resp \in (IF t.create THEN WriteResponsesFor(d)
                                         ELSE {Resp("none", EmptyBody)}) :
               /\ track' = IF Tracked(d) /\ t.create /\ CallOk(resp)
                           THEN [track EXCEPT !.zone = Append(@, t.payload)]
                           ELSE track
               /\ Emit(<<Record(rec, d)>>
                       \o (IF rec.type = "URL"
                           THEN <<Report("warn", "redirect_rule_needed", d)>>
                           ELSE IF t.skip
                           THEN <<Report("warn", "skipped", d)>> ELSE <<>>)
                       \o (IF t.create
                           THEN <<Call("cf", "POST", "dns_records", d,
                                       CallOk(resp), t.payload)>>
                           ELSE <<>>)
                       \o (IF t.create /\ ~create_cf_record(resp)
                           THEN <<Report("err", "create_failed", d)>> ELSE <<>>))
               /\ created' = IF t.create /\ create_cf_record(resp)
                             THEN created + 1 ELSE created
               /\ skipped' = IF t.skip THEN skipped + 1 ELSE skipped
               /\ IF t.skip /\ PostIncrFails(skipped)
                  THEN Exit(1, "errexit")
                  ELSE UNCHANGED <<pc, exitCode, exitWhy>>
  /\ UNCHANGED <<errexitArith, store, cmd, step, allPos, i, startStore,
                 hist, count, pending>>

\* the while loop has read every record: the summary line, next domain
RecordsDone ==
  /\ pc = "records"
  /\ remaining = 0
  /\ Emit(<<Report("info", "summary", Domains[i])>>)
  /\ AdvanceTo(Len(Domains), "create_records")
  /\ created' = 0 /\ skipped' = 0 /\ count' = 0
  /\ UNCHANGED <<errexitArith, track, store, cmd, step, allPos, startStore, hist,
                 pending, remaining>>

----------------------------------------------------------------------------
(* step_create_redirects *)

CreateRedirects ==
  /\ pc = "create_redirects"
  /\ IF ~fileExists
     THEN /\ Emit(<<Report("stderr", "jq_cannot_open", "-")>>)
          /\ Exit(2, "errexit")
     ELSE IF zone_id_for(RedirectDomain) = ""
     THEN \* return 1
          /\ Emit(<<Report("err", "no_zone_id", RedirectDomain)>>)
          /\ Exit(1, "errexit")
     ELSE \E resp \in WriteResponses :
            /\ Emit(<<Call("cf", "POST", "rulesets", RedirectDomain, CallOk(resp), NoBody),
                      IF JqSuccess(CurlF(resp).out) = "true"
                      THEN Report("info", "redirect_created", RedirectDomain)
                      ELSE Report("err", "redirect_failed", RedirectDomain)>>)
            /\ pc' = "return"
            /\ UNCHANGED <<exitCode, exitWhy>>
  /\ UNCHANGED <<errexitArith, track, store, cmd, step, allPos, i, startStore,
                 hist, locals>>

----------------------------------------------------------------------------
(* step_switch_nameservers *)

SwitchNsDomain ==
  /\ pc = "switch_ns"
  /\ LET d   == Domains[i]
         ns1 == ns_at(d, 1)
         ns2 == ns_at(d, 2)
     IN IF ~fileExists
        THEN /\ Emit(<<Report("stderr", "jq_cannot_open", "-")>>)
             /\ Exit(2, "errexit")
             /\ UNCHANGED i
        ELSE IF ns1 = "" \/ ns1 = "null"
        THEN /\ Emit(<<Report("err", "no_nameservers", d)>>)
             /\ Advance(Len(Domains))
        ELSE \E acked \in BOOLEAN, resp \in WriteResponses :
               IF ~confirm(acked)
               THEN /\ Emit(<<Prompt("switch-ns", d, FALSE)>>)
                    /\ Exit(130, "abort")
                    /\ UNCHANGED i
               ELSE /\ Emit(<<Prompt("switch-ns", d, acked),
                              Call("ds", "PUT", "delegation", d, CallOk(resp),
                                   [ns |-> <<ns1, ns2>>]),
                              IF CallOk(resp)
                              THEN Report("info", "ns_updated", d)
                              ELSE Report("err", "ns_update_failed", d)>>)
                    /\ Advance(Len(Domains))
  /\ UNCHANGED <<errexitArith, track, store, cmd, step, allPos, startStore, hist,
                 locals>>

----------------------------------------------------------------------------
(* step_verify *)

\* GET /zones/<id>
ZoneStatusResponses ==
  { Resp("2xx", [empty |-> FALSE, success |-> "true", status |-> "active"]),
    Resp("2xx", [empty |-> FALSE, success |-> "true", status |-> "pending"]),
    Resp("4xx", [empty |-> FALSE, success |-> "false", status |-> "null"]),
    Resp("neterr", [empty |-> TRUE, success |-> "", status |-> ""]) }

\* a status query sent as a POST
ZoneStatusCall_Post(d, ok) == Call("cf", "POST", "zone", d, ok, NoBody)

\* cf GET "/zones/$zone_id"
ZoneStatusCall(d, ok) == Call("cf", "GET", "zone", d, ok, NoBody)

\* a loop of step_verify is over: on to the next block
NextBlock(n, nextPc) ==
  /\ i' = IF i >= n THEN 1 ELSE i + 1
  /\ pc' = IF i >= n THEN nextPc ELSE pc
  /\ UNCHANGED <<exitCode, exitWhy>>

\* Zone activation status, one domain
VerifyZone ==
  /\ pc = "verify_zones"
  /\ LET d == Domains[i] IN
     IF ~fileExists
     THEN /\ Emit(<<Report("stderr", "jq_cannot_open", "-")>>)
          /\ Exit(2, "errexit")
          /\ UNCHANGED i
     ELSE IF zone_id_for(d) = ""
     THEN /\ Emit(<<Report("err", "no_zone_id", d)>>)
          /\ NextBlock(Len(Domains), "verify_runeasy")
     ELSE \E resp \in ZoneStatusResponses :
            IF CurlF(resp).rc # 0
            THEN /\ Emit(<<ZoneStatusCall(d, FALSE)>>)
                 /\ Exit(CurlF(resp).rc, "errexit")
                 /\ UNCHANGED i
            ELSE /\ Emit(<<ZoneStatusCall(d, TRUE),
                           IF resp.body.status = "active"
                           THEN Report("info", "zone_status", d)
                           ELSE Report("warn", "zone_status", d)>>)
                 /\ NextBlock(Len(Domains), "verify_runeasy")
  /\ UNCHANGED <<errexitArith, track, store, cmd, step, allPos, startStore, hist,
                 locals>>

\* Also check runeasy.app
VerifyRunEasy ==
  /\ pc = "verify_runeasy"
  /\ \E resp \in ZoneStatusResponses :
       IF CurlF(resp).rc # 0
       THEN /\ Emit(<<ZoneStatusCall(RunEasy, FALSE)>>)
            /\ Exit(CurlF(resp).rc, "errexit")
       ELSE /\ Emit(<<ZoneStatusCall(RunEasy, TRUE),
                      Report("info", "zone_status", RunEasy)>>)
            /\ pc' = "verify_dig"
            /\ UNCHANGED <<exitCode, exitWhy>>
  /\ UNCHANGED <<errexitArith, track, store, cmd, step, allPos, i, startStore,
                 hist, locals>>

\* dig ... | tr (or sort, or while read): the pipeline fails when dig does
Dig(qtype, d, answered, n, nextPc) ==
  /\ Emit(<<Call("dns", "QUERY", qtype, d, answered, NoBody)>>)
  /\ IF answered
     THEN NextBlock(n, nextPc)
     ELSE Exit(9, "errexit") /\ UNCHANGED i

\* DNS resolution, one domain
VerifyDig ==
  /\ pc = "verify_dig"
  /\ \E answered \in BOOLEAN :
       Dig("A", Domains[i], answered, Len(Domains), "verify_https")
  /\ UNCHANGED <<errexitArith, track, store, cmd, step, allPos, startStore, hist,
                 locals>>

HttpCodes == {"200", "301", "404", "TIMEOUT"}

\* Key HTTPS endpoints, one URL
VerifyHttps ==
  /\ pc = "verify_https"
  /\ \E code \in HttpCodes :
       Emit(<<Call("web", "GET", "https", "-", code # "TIMEOUT", NoBody),
              IF code \in {"200", "301", "302"}
              THEN Report("info", "http_code", "-")
              ELSE Report("warn", "http_code", "-")>>)
  /\ NextBlock(NumUrls, "verify_redirect")
  /\ UNCHANGED <<errexitArith, track, store, cmd, step, allPos, startStore, hist,
                 locals>>

\* Redirect check: curl -sI | grep -i '^location:' | tr -d '\r'
VerifyRedirect ==
  /\ pc = "verify_redirect"
  /\ \E answer \in {"location", "no_location", "neterr"} :
       /\ Emit(<<Call("web", "HEAD", "redirect", "hire.mstrick.com",
                      answer # "neterr", NoBody)>>
               \o IF answer = "location"
                  THEN <<Report("info", "location", "hire.mstrick.com")>>
                  ELSE <<>>)
       /\ IF answer = "location"
          THEN pc' = "verify_mx" /\ UNCHANGED <<exitCode, exitWhy>>
          ELSE \* grep found nothing: the pipeline has status 1
               Exit(1, "errexit")
  /\ UNCHANGED <<errexitArith, track, store, cmd, step, allPos, i, startStore,
                 hist, locals>>

\* MX records (idlefusion.com)
VerifyMx ==
  /\ pc = "verify_mx"
  /\ \E answered \in BOOLEAN :
       Dig("MX", "idlefusion.com", answered, 1, "verify_ns")
  /\ i = 1
  /\ UNCHANGED <<errexitArith, track, store, cmd, step, allPos, startStore, hist,
                 locals>>

\* Nameserver check, one domain
VerifyNs ==
  /\ pc = "verify_ns"
  /\ \E answered \in BOOLEAN :
       Dig("NS", Domains[i], answered, Len(Domains), "return")
  /\ UNCHANGED <<errexitArith, track, store, cmd, step, allPos, startStore, hist,
                 locals>>

----------------------------------------------------------------------------
(* step_unlock_domains *)

\* POST .../authorize_transfer_out, read with curl -s -w "%{http_code}"
UnlockResponses == {"204", "400", "neterr"}

UnlockDomain ==
  /\ pc = "unlock"
  /\ LET d == AllDomains[i] IN
     \E acked \in BOOLEAN, http_code \in UnlockResponses :
       IF ~confirm(acked)
       THEN /\ Emit(<<Prompt("unlock", d, FALSE)>>)
            /\ Exit(130, "abort")
            /\ UNCHANGED i
       ELSE IF http_code = "neterr"
       THEN /\ Emit(<<Prompt("unlock", d, acked),
                      Call("ds", "POST", "authorize_transfer_out", d, FALSE, NoBody)>>)
            /\ Exit(7, "errexit")
            /\ UNCHANGED i
       ELSE /\ Emit(<<Prompt("unlock", d, acked),
                      Call("ds", "POST", "authorize_transfer_out", d,
                           http_code = "204", NoBody),
                      IF http_code = "204"
                      THEN Report("info", "unlocked", d)
                      ELSE Report("err", "unlock_failed", d)>>)
            /\ Advance(Len(AllDomains))
  /\ UNCHANGED <<errexitArith, track, store, cmd, step, allPos, startStore, hist,
                 locals>>

----------------------------------------------------------------------------
(* Specification *)

Next ==
  \/ Invoke
  \/ ValidateCf
  \/ ValidateDs
  \/ ConfirmStep
  \/ BeginStep
  \/ StepReturn
  \/ AddZonesDomain
  \/ CreateRecordsDomain
  \/ ClearRecord
  \/ FetchSource
  \/ ProcessRecord
  \/ RecordsDone
  \/ CreateRedirects
  \/ SwitchNsDomain
  \/ VerifyZone
  \/ VerifyRunEasy
  \/ VerifyDig
  \/ VerifyHttps
  \/ VerifyRedirect
  \/ VerifyMx
  \/ VerifyNs
  \/ UnlockDomain

Spec == Init /\ [][Next]_vars

TypeOK ==
  /\ fileExists \in BOOLEAN
  /\ DOMAIN zoneMap \subseteq DomainSet
  /\ (~fileExists => zoneMap = EmptyMap)
  /\ i \in 1..(NumUrls + 1)
  /\ allPos \in 0..Len(StepOrder)
  /\ (pc = "exited") = (exitWhy # "-")

----------------------------------------------------------------------------
(* Properties *)

IsCall(e, api, method, op) ==
  e.kind = "call" /\ e.api = api /\ e.method = method /\ e.op = op

StoreUntouched ==
  /\ fileExists = startStore.exists
  /\ zoneMap = startStore.map

\* C1: add-zones is idempotent.  An add-zones invocation that finds a
\* ZoneRecord for every domain sends no POST /zones and leaves the state store
\* as it was; and whenever a POST /zones is sent for a domain, that domain had
\* no entry in the store.
C1_AddZonesIdempotent ==
  /\ [](cmd = "add-zones" /\ DOMAIN startStore.map = DomainSet
        => /\ [api |-> "cf", method |-> "POST", op |-> "zones"] \notin calls
           /\ StoreUntouched)
  /\ [][\A k \in 1..Len(ev') :
          IsCall(ev'[k], "cf", "POST", "zones") => ev'[k].dom \notin DOMAIN zoneMap]_vars

\* an add-zones run over a complete store has gone through every domain
C1_Witness ==
  /\ cmd = "add-zones"
  /\ pc = "exited"
  /\ exitCode = 0
  /\ DOMAIN startStore.map = DomainSet

IrreversibleOps == {"delegation", "authorize_transfer_out"}

\* C2: in switch-ns and unlock the delegation change / transfer authorization
\* for a domain is sent only after the operator acknowledged the prompt for
\* that domain; an aborted prompt ends the invocation with no request sent
\* for that domain or any later one.
C2_ConfirmBeforeIrreversible ==
  \A k \in 1..Len(ev) :
    /\ (ev[k].kind = "call" /\ ev[k].op \in IrreversibleOps
        => \E j \in 1..(k - 1) :
             /\ ev[j].kind = "prompt"
             /\ ev[j].op = step
             /\ ev[j].dom = ev[k].dom
             /\ ev[j].ok)
    /\ (ev[k].kind = "prompt" /\ ev[k].op \in {"switch-ns", "unlock"} /\ ~ev[k].ok
        => /\ pc = "exited"
           /\ \A j \in 1..Len(ev) : ev[j].kind # "call")

\* the delegation of the last domain of the list has been changed
C2_Witness ==
  \E k \in 1..Len(ev) :
    /\ IsCall(ev[k], "ds", "PUT", "delegation")
    /\ ev[k].dom = Domains[Len(Domains)]
    /\ Len(Domains) > 1

ClaimedOrder == <<"add-zones", "create-records", "create-redirects",
                  "switch-ns", "verify", "unlock">>

\* prompt acknowledged, step begun, step finished, for each step in turn
ClaimedHist ==
  [k \in 1..(3 * Len(ClaimedOrder)) |->
     << <<"ack", "begin", "end">>[((k - 1) % 3) + 1],
        ClaimedOrder[((k - 1) \div 3) + 1] >>]

\* C3: in `all` the six steps run in the order add-zones, create-records,
\* create-redirects, switch-ns, verify, unlock; each begins after its own
\* prompt was acknowledged and after the previous step finished, none twice.
C3_AllStrictOrder ==
  cmd = "all" =>
    /\ Len(hist) <= Len(ClaimedHist)
    /\ \A k \in 1..Len(hist) : hist[k] = ClaimedHist[k]

\* run_all has gone through all six steps
C3_Witness ==
  /\ cmd = "all"
  /\ pc = "exited"
  /\ exitCode = 0
  /\ Len(hist) = 3 * Len(ClaimedOrder)

\* C4: in create-records, a domain with no ZoneRecord in the state store gets
\* an error report for that domain, and no provider call is made for it.
C4_MissingZoneReported ==
  [][pc = "create_records" /\ Domains[i] \notin DOMAIN zoneMap
     => /\ ev' = <<Report("err", "no_zone_id", Domains[i])>>
        /\ calls' = calls]_vars

ResourceOps == {"zones", "dns_records", "dns_record", "records", "rulesets",
                "delegation", "authorize_transfer_out"}

FailedResourceCall(e) ==
  e.kind = "call" /\ e.api \in {"cf", "ds"} /\ e.op \in ResourceOps /\ ~e.ok

\* C5: once the tokens are validated, a failed provider call for a record or a
\* domain never ends the invocation: the step goes on with the next record or
\* domain.
C5_FailedCallNotFatal ==
  [][(/\ \E k \in 1..Len(ev') : FailedResourceCall(ev'[k])
      /\ \A k \in 1..Len(ev') :
           ev'[k].kind = "call" /\ ~ev'[k].ok => FailedResourceCall(ev'[k]))
     => pc' # "exited"]_vars

KnownTypes == {"A", "AAAA", "CNAME", "ALIAS", "MX", "TXT", "SRV", "URL"}

UnknownRecord(e) ==
  e.kind = "record" /\ ~e.body.system_record /\ e.body.type \notin KnownTypes

\* C6: a source record of an unrecognized type is not fatal: the invocation
\* goes on after it has been reported and skipped.
C6_UnknownTypeNotFatal ==
  [][(\E k \in 1..Len(ev') : UnknownRecord(ev'[k])) => pc' # "exited"]_vars

\* C7: for a non-system source record of an unrecognized type the skip counter
\* goes up by exactly one, the created counter stays, and no create call is
\* sent.
C7_UnknownTypeSkipped ==
  [][(\E k \in 1..Len(ev') : UnknownRecord(ev'[k]))
     => /\ skipped' = skipped + 1
        /\ created' = created
        /\ \A j \in 1..Len(ev') : ev'[j].kind # "call"]_vars

\* a CAA record has been skipped after another record was skipped
C7_Witness ==
  /\ \E k \in 1..Len(ev) : UnknownRecord(ev[k])
  /\ skipped = 2

\* C8: a verify invocation sends no mutating request: every request to a
\* provider is a GET or a HEAD, and nothing is a POST, PUT or DELETE.
C8_VerifyReadOnly ==
  cmd = "verify" =>
    \A c \in calls :
      /\ c.method \notin {"POST", "PUT", "PATCH", "DELETE"}
      /\ (c.api \in {"cf", "ds"} => c.method \in {"GET", "HEAD"})

\* a verify invocation has run every probe
C8_Witness ==
  /\ cmd = "verify"
  /\ pc = "exited"
  /\ exitCode = 0
  /\ [api |-> "cf", method |-> "GET", op |-> "zone"] \in calls
  /\ [api |-> "web", method |-> "HEAD", op |-> "redirect"] \in calls

ValidationProbes ==
  { [api |-> "cf", method |-> "GET", op |-> "tokens_verify"],
    [api |-> "ds", method |-> "GET", op |-> "account"] }

RejectedProbe(e) ==
  e.kind = "call" /\ e.op \in {"tokens_verify", "account"} /\ ~e.ok

\* C9: when a token is rejected at validation the invocation exits non-zero,
\* having sent nothing but the validation probes and with the state store as
\* it found it, whatever the step argument.
C9_CredentialFailureFatal ==
  (\E k \in 1..Len(ev) : RejectedProbe(ev[k]))
    => /\ pc = "exited"
       /\ exitCode # 0
       /\ calls \subseteq ValidationProbes
       /\ StoreUntouched

\* verify, with a state file, has been stopped by the DNSimple token check
C9_Witness ==
  /\ cmd = "verify"
  /\ exitWhy = "ds_token"
  /\ \E k \in 1..Len(ev) : RejectedProbe(ev[k])

\* C10: a ZoneRecord in the state store is never changed or removed by any
\* step, and the store only holds entries for domains of the domain list.
C10_ZoneRecordsStable ==
  /\ [][\A d \in DOMAIN zoneMap :
          d \in DOMAIN zoneMap' /\ zoneMap'[d] = zoneMap[d]]_vars
  /\ [](DOMAIN zoneMap \subseteq DomainSet)

\* add-zones has added an entry to a store that already held one
C10_Witness ==
  /\ cmd = "add-zones"
  /\ startStore.map # EmptyMap
  /\ DOMAIN zoneMap # DOMAIN startStore.map

----------------------------------------------------------------------------
(* add-zones: the zone exists already *)

AlreadyExistsAnswer(e) ==
  /\ e.kind = "answer" /\ e.op = "zones" /\ ~e.ok
  /\ ~e.body.empty /\ e.body.message = "zone already exists"

OtherCreateError(e) ==
  /\ e.kind = "answer" /\ e.op = "zones" /\ ~e.ok
  /\ ~e.body.empty /\ e.body.message # "zone already exists"

StoredZone(d) ==
  [zone_id |-> ProviderZone(d).id, nameservers |-> ProviderZone(d).name_servers]

\* C11: in add-zones, when POST /zones for a domain is answered with a "zone
\* already exists" error, the zone is fetched by name, with no second POST
\* /zones, and the id and two nameservers of the zone that lookup returns are
\* stored for the domain; any other creation error is logged and leaves the
\* store without an entry for the domain.
C11_AlreadyExistsFallback ==
  [][\A k \in 1..Len(ev') :
       /\ AlreadyExistsAnswer(ev'[k])
          => /\ Cardinality({j \in 1..Len(ev') :
                               IsCall(ev'[j], "cf", "POST", "zones")}) = 1
             /\ \E j \in (k + 1)..Len(ev') :
                  /\ IsCall(ev'[j], "cf", "GET", "zones_by_name")
                  /\ ev'[j].dom = ev'[k].dom
             /\ \A j \in 1..Len(ev') :
                  (/\ ev'[j].kind = "answer" /\ ev'[j].op = "zones_by_name"
                   /\ ev'[j].ok /\ ev'[j].body.result # <<>>)
                  => /\ ev'[k].dom \in DOMAIN zoneMap'
                     /\ zoneMap'[ev'[k].dom] = StoredZone(ev'[k].dom)
       /\ OtherCreateError(ev'[k])
          => /\ \E j \in 1..Len(ev') :
                  ev'[j] = Report("err", "zone_create_failed", ev'[k].dom)
             /\ ev'[k].dom \notin DOMAIN zoneMap']_vars

----------------------------------------------------------------------------
(* create-records: URL records *)

UrlRecord(e) ==
  e.kind = "record" /\ e.body.type = "URL" /\ ~e.body.system_record

\* the body of the create call for the placeholder at name n
PlaceholderAt(n) ==
  [type |-> Quote("A"), name |-> Quote(n), content |-> Quote("192.0.2.1"),
   ttl |-> "1", proxied |-> "true"]

PlaceholderSent(evs, e) ==
  \E j \in 1..Len(evs) :
    /\ IsCall(evs[j], "cf", "POST", "dns_records")
    /\ evs[j].dom = e.dom
    /\ evs[j].body = PlaceholderAt(cf_name(e.body.name))

RedirectFlagged(evs, e) ==
  \E j \in 1..Len(evs) : evs[j] = Report("warn", "redirect_rule_needed", e.dom)

\* C12 as stated: for every non-system URL record, whatever its name (the
\* apex included), a create call for a proxied A record 192.0.2.1 at that
\* name is sent and the need for a redirect rule is flagged.
C12_UrlPlaceholderEveryName ==
  [][\A k \in 1..Len(ev') :
       UrlRecord(ev'[k])
         => PlaceholderSent(ev', ev'[k]) /\ RedirectFlagged(ev', ev'[k])]_vars

\* C12 amended: for every non-system URL record the need for a redirect rule
\* is flagged; when its name is not the apex exactly one create call is sent,
\* for a proxied A record 192.0.2.1 at that name, and when its name is the
\* apex (empty) no create call is sent.
C12_UrlPlaceholderNamed ==
  [][\A k \in 1..Len(ev') :
       UrlRecord(ev'[k])
         => /\ RedirectFlagged(ev', ev'[k])
            /\ IF ev'[k].body.name # ""
               THEN /\ PlaceholderSent(ev', ev'[k])
                    /\ Cardinality({j \in 1..Len(ev') : ev'[j].kind = "call"}) = 1
               ELSE \A j \in 1..Len(ev') : ev'[j].kind # "call"]_vars

\* the placeholder for a URL record at www has been sent, after an earlier
\* record of the same zone was skipped
C12_Witness ==
  /\ pc = "records"
  /\ skipped = 2
  /\ \E k \in 1..Len(ev) :
       /\ UrlRecord(ev[k]) /\ ev[k].body.name = "www"
       /\ PlaceholderSent(ev, ev[k])

----------------------------------------------------------------------------
(* create-records: MX records *)

MxRecord(e) ==
  e.kind = "record" /\ e.body.type = "MX" /\ ~e.body.system_record

\* C13: the record created from a source MX record carries the source
\* record's priority when it has one (0 included), and priority 10 when it
\* has none.
C13_MxPriority ==
  [][\A k \in 1..Len(ev') :
       MxRecord(ev'[k])
         => \E j \in 1..Len(ev') :
              /\ IsCall(ev'[j], "cf", "POST", "dns_records")
              /\ ev'[j].dom = ev'[k].dom
              /\ ev'[j].body.type = "\"MX\""
              /\ ev'[j].body.content = "\"" \o ev'[k].body.content \o "\""
              /\ ev'[j].body.priority =
                   (IF ev'[k].body.priority = "null" THEN "10"
                    ELSE ev'[k].body.priority)]_vars

\* an MX record without priority has been recreated with priority 10
C13_Witness ==
  \E k \in 1..Len(ev) :
    /\ MxRecord(ev[k]) /\ ev[k].body.priority = "null"
    /\ \E j \in 1..Len(ev) :
         /\ IsCall(ev[j], "cf", "POST", "dns_records")
         /\ ev[j].body.type = "\"MX\"" /\ ev[j].body.priority = "10"

----------------------------------------------------------------------------
(* create-records: the SRV branch on records of the form the provider sends *)

SrvLabels == { <<"_", "s", "i", "p">>, <<"_", "t", "c", "p">>, <<"c", "h">> }

SrvWeights == { <<"1", "0">>, <<"0">> }

SrvPorts == { <<"5", "0", "6", "0">>, <<"4", "4", "3">> }

SrvTargets ==
  { <<"s", "i", "p", ".", "e", "x", "a", "m", "p", "l", "e", ".", "c", "o", "m">>,
    <<"h", ".", "e", "u">> }

\* a source SRV record: the labels of its name, the three fields of its
\* content, and the number of dots that follow the target
SrvInputs ==
  { [labels |-> l, weight |-> w, port |-> p, target |-> t, dots |-> n] :
      l \in UNION { [1..m -> SrvLabels] : m \in 2..MaxLabels },
      w \in SrvWeights, p \in SrvPorts, t \in SrvTargets, n \in 0..2 }

RECURSIVE JoinWith(_, _)
JoinWith(fs, sep) ==
  IF Len(fs) = 0 THEN <<>>
  ELSE IF Len(fs) = 1 THEN fs[1]
  ELSE fs[1] \o <<sep>> \o JoinWith(Tail(fs), sep)

\* .name and .content of the record, as the source provider writes them
SrvName(in) == JoinWith(in.labels, ".")

SrvContent(in) ==
  JoinWith(<<in.weight, in.port, in.target \o [k \in 1..in.dots |-> "."]>>, " ")

SrvInit ==
  /\ errexitArith = TRUE
  /\ fileExists = FALSE
  /\ zoneMap = EmptyMap
  /\ pc = "srv"
  /\ cmd = "create-records"
  /\ step = "create-records"
  /\ allPos = 0
  /\ i = 1
  /\ exitCode = -1
  /\ exitWhy = "-"
  /\ startStore = [exists |-> FALSE, map |-> EmptyMap]
  /\ calls = {}
  /\ hist = <<>>
  /\ created = 0
  /\ skipped = 0
  /\ count = 0
  /\ pending = 0
  /\ remaining = 1
  /\ track = Untracked
  /\ \E in \in SrvInputs : ev = << [kind |-> "srv_record", in |-> in] >>

\* the SRV branch takes the record apart
SrvApply ==
  /\ pc = "srv"
  /\ pc' = "srv_parsed"
  /\ remaining' = remaining - 1
  /\ ev' = Append(ev, [kind |-> "srv_fields",
                        name |-> Join(SrvName(ev[1].in)),
                        content |-> Join(SrvContent(ev[1].in)),
                        data |-> SrvParseChars(SrvName(ev[1].in),
                                               SrvContent(ev[1].in))])
  /\ UNCHANGED <<errexitArith, track, store, cmd, step, allPos, i, exitCode, exitWhy,
                 startStore, calls, hist, created, skipped, count, pending>>

SrvNext == SrvApply

SpecSrv == SrvInit /\ [][SrvNext]_vars

\* C14: a source SRV record with name "<service>.<proto>[...]" and content
\* "<weight> <port> <target>" is taken apart into service = first label of
\* the name, proto = second label, weight, port = first and second content
\* field, target = third content field less one trailing dot; "_sip._tcp"
\* with "10 5060 sip.example.com." gives _sip, _tcp, 10, 5060,
\* sip.example.com.
C14_SrvFields ==
  pc = "srv_parsed" =>
    LET in  == ev[1].in
        out == ev[2]
    IN /\ out.data.service = Join(in.labels[1])
       /\ out.data.proto = Join(in.labels[2])
       /\ out.data.weight = Join(in.weight)
       /\ out.data.port = Join(in.port)
       /\ out.data.target =
            Join(in.target \o [k \in 1..(IF in.dots = 0 THEN 0 ELSE in.dots - 1) |-> "."])
       /\ (out.name = "_sip._tcp" /\ out.content = "10 5060 sip.example.com."
           => out.data = [service |-> "_sip", proto |-> "_tcp", weight |-> "10",
                          port |-> "5060", target |-> "sip.example.com"])

\* the record of the example has been taken apart
C14_Witness ==
  /\ pc = "srv_parsed"
  /\ ev[2].name = "_sip._tcp"
  /\ ev[2].content = "10 5060 sip.example.com."
  /\ ev[2].data.target = "sip.example.com"

----------------------------------------------------------------------------
(* Command dispatch *)

\* the step that starts an invocation, and its argument
Invoked(evs) == evs # <<>> /\ evs[1].kind = "argv"

Unrecognized(a) == a \notin Steps \cup {"all", ""}

\* nothing has run: no step, no provider call, the store as it was
NothingRun ==
  /\ pc' = "exited" /\ exitCode' # 0
  /\ calls' = {} /\ hist' = <<>> /\ step' = "none"
  /\ fileExists' = fileExists /\ zoneMap' = zoneMap
  /\ \A k \in 1..Len(ev') : ev'[k].kind # "call"

NoArgumentIsAll ==
  Invoked(ev') /\ ev'[1].op = ""
    => /\ cmd' = "all"
       /\ \/ pc' = "validate_cf" /\ ev' = <<Argv("")>>
          \/ exitWhy' = "token_unset"

\* C15 as stated: no argument behaves as `all`; an unrecognized argument
\* prints usage and exits non-zero, no step run, no provider call, the state
\* store untouched.
C15_UnrecognizedPrintsUsage ==
  [][/\ NoArgumentIsAll
     /\ Invoked(ev') /\ Unrecognized(ev'[1].op)
          => /\ NothingRun
             /\ \E k \in 1..Len(ev') : ev'[k] = Report("info", "usage", "-")]_vars

\* C15 amended: no argument behaves as `all`; an unrecognized argument ends
\* the invocation non-zero with no step run, no provider call and the state
\* store untouched, after printing usage when both tokens are set, and
\* after the message of the unset token (and no usage) otherwise.
C15_UnrecognizedRunsNothing ==
  [][/\ NoArgumentIsAll
     /\ Invoked(ev') /\ Unrecognized(ev'[1].op)
          => /\ NothingRun
             /\ \/ ev' = <<Argv(ev'[1].op), Report("info", "usage", "-")>>
                   /\ exitWhy' = "usage"
                \/ ev' = <<Argv(ev'[1].op), Report("err", "token_unset", "-")>>
                   /\ exitWhy' = "token_unset"]_vars

\* usage has been printed by an invocation that found a filled state store
C15_Witness ==
  /\ exitWhy = "usage"
  /\ cmd = "status"
  /\ zoneMap # EmptyMap

----------------------------------------------------------------------------
(* verify: probes that fail *)

VerifyPcs == {"verify_zones", "verify_runeasy", "verify_dig", "verify_https",
              "verify_redirect", "verify_mx", "verify_ns"}

Probe(e) == e.kind = "call" /\ e.api \in {"cf", "dns", "web"}

\* C16: during verify no diagnostic probe (zone status query, DNS lookup,
\* HTTPS probe, redirect check) ends the invocation, whatever its outcome,
\* and a probe that failed or timed out is followed by a warning.
C16_ProbeFailureNotFatal ==
  [][(pc \in VerifyPcs
      => \A k \in 1..Len(ev') :
           Probe(ev'[k])
             => /\ pc' # "exited"
                /\ (~ev'[k].ok
                     => (\E j \in (k + 1)..Len(ev') :
                           ev'[j].kind = "report" /\ ev'[j].level = "warn")))]_vars

----------------------------------------------------------------------------
(* Steps that need stored state *)

NeedsStatePcs == {"create_records", "switch_ns", "verify_zones"}

\* C17: in create-records, switch-ns and verify, a domain with no zone id or
\* nameservers in the state store is reported, gets no prompt and no provider
\* call, and the step goes on with the other domains: the invocation does not
\* end there.
C17_MissingStateSkipsDomain ==
  [][(pc \in NeedsStatePcs /\ Domains[i] \notin DOMAIN zoneMap
      => /\ \E k \in 1..Len(ev') :
              /\ ev'[k].kind = "report" /\ ev'[k].level = "err"
              /\ ev'[k].dom = Domains[i]
         /\ \A k \in 1..Len(ev') : ev'[k].kind \notin {"call", "prompt"}
         /\ pc' # "exited"
         /\ (i < Len(Domains) => pc' = pc /\ i' = i + 1))]_vars

----------------------------------------------------------------------------
(* verify and the state store *)

OnlyAddZonesWritesRecords ==
  [][(zoneMap' # zoneMap => (pc = "add_zones" /\ step = "add-zones"))]_vars

----------------------------------------------------------------------------
(* create-records: clear, fetch, create *)

RecordsPcs == {"create_records", "clear", "fetch", "records"}

\* how far the work on one domain has got
Rank(p) ==
  CASE p = "create_records" -> 0
    [] p = "clear"          -> 1
    [] p = "fetch"          -> 2
    [] p = "records"        -> 3

\* C19: in create-records the calls for a domain are ordered clear, fetch,
\* create.  Delete calls are sent only while the zone of the current domain
\* is cleared, the source records are fetched only after that, create calls
\* are sent only after the fetch, each for the current domain; and the step
\* never goes back to an earlier phase of a domain nor to an earlier domain,
\* so no create for a domain precedes a delete for it.
C19_ClearFetchCreate ==
  [][(/\ (pc \in RecordsPcs /\ pc' \in RecordsPcs)
           => (i' > i \/ (i' = i /\ Rank(pc') >= Rank(pc)))
      /\ \A k \in 1..Len(ev') :
           /\ IsCall(ev'[k], "cf", "DELETE", "dns_record")
                => (pc = "clear" /\ ev'[k].dom = Domains[i])
           /\ IsCall(ev'[k], "ds", "GET", "records")
                => (pc = "fetch" /\ ev'[k].dom = Domains[i])
           /\ IsCall(ev'[k], "cf", "POST", "dns_records")
                => (pc = "records" /\ ev'[k].dom = Domains[i]))]_vars

\* a record has been created in the zone of the last domain after a record
\* was deleted from it
C19_Witness ==
  /\ pc = "records"
  /\ i = Len(Domains)
  /\ i > 1
  /\ count > 0
  /\ created > 0

----------------------------------------------------------------------------
(* create-records run twice on one zone *)

\* a record the target provider imported on its own when the zone was added
AutoImported ==
  [type |-> Quote("A"), name |-> Quote("@"), content |-> Quote("198.51.100.1"),
   ttl |-> "1", proxied |-> "true"]

\* create-records is about to run with valid tokens; the state store holds
\* the zone of the first domain, whose records and source records are
\* followed
RerunInit ==
  /\ errexitArith \in BOOLEAN
  /\ fileExists = TRUE
  /\ zoneMap = SaveZone(EmptyMap, Domains[1], ProviderZone(Domains[1]).id,
                        ProviderZone(Domains[1]).name_servers[1],
                        ProviderZone(Domains[1]).name_servers[2])
  /\ pc = "begin"
  /\ cmd = "create-records"
  /\ step = "create-records"
  /\ allPos = 0
  /\ i = 1
  /\ exitCode = -1
  /\ exitWhy = "-"
  /\ startStore = [exists |-> TRUE, map |-> zoneMap]
  /\ calls = {}
  /\ hist = <<>>
  /\ ev = <<Argv("create-records")>>
  /\ created = 0
  /\ skipped = 0
  /\ count = 0
  /\ pending = 0
  /\ remaining = 0
  /\ \E n \in 0..MaxExisting, m \in 0..MaxSource :
       \E src \in [1..m -> SourceRecords] :
         track = [on |-> TRUE, dom |-> Domains[1],
                  zone |-> [k \in 1..n |-> AutoImported],
                  source |-> src, run |-> 1, after1 |-> <<>>]

\* the operator runs create-records once more, the tokens still valid
Rerun ==
  /\ pc = "exited"
  /\ track.on
  /\ track.run = 1
  /\ track' = [track EXCEPT !.run = 2, !.after1 = track.zone]
  /\ pc' = "begin"
  /\ exitCode' = -1
  /\ exitWhy' = "-"
  /\ i' = 1
  /\ created' = 0 /\ skipped' = 0 /\ count' = 0
  /\ pending' = 0 /\ remaining' = 0
  /\ ev' = <<Argv("create-records")>>
  /\ calls' = {}
  /\ hist' = <<>>
  /\ startStore' = [exists |-> fileExists, map |-> zoneMap]
  /\ UNCHANGED <<errexitArith, store, cmd, step, allPos>>

RerunNext ==
  \/ BeginStep
  \/ CreateRecordsDomain
  \/ ClearRecord
  \/ FetchSource
  \/ ProcessRecord
  \/ RecordsDone
  \/ StepReturn
  \/ Rerun

SpecRerun == RerunInit /\ [][RerunNext]_vars

CountIn(recs, x) == Cardinality({k \in 1..Len(recs) : recs[k] = x})

\* the same records, each as many times
SameRecords(a, b) ==
  /\ Len(a) = Len(b)
  /\ \A k \in 1..Len(a) : CountIn(a, a[k]) = CountIn(b, a[k])

\* C20: create-records run twice in succession on an unchanged source zone
\* leaves the target zone with the records it held after the first run; in
\* the second run every record the zone held is deleted before the source
\* records are fetched and re-created.
C20_RerunSameRecords ==
  /\ (track.on /\ track.run = 2 /\ pc = "fetch") => track.zone = <<>>
  /\ (track.on /\ track.run = 2 /\ pc = "exited")
       => SameRecords(track.zone, track.after1)

----------------------------------------------------------------------------
(* switch-ns: the nameservers of the delegation request *)

Delegation(e) == IsCall(e, "ds", "PUT", "delegation")

\* a value that stands for no nameserver
NoNameserver == {"", "null"}

\* C21: in switch-ns every delegation request for a domain carries exactly
\* the two nameservers the state store holds for that domain, in stored
\* order; none of them is empty or "null", and none is a nameserver of
\* another domain.
C21_DelegationCarriesStoredNs ==
  \A k \in 1..Len(ev) :
    Delegation(ev[k])
      => /\ step = "switch-ns"
         /\ ev[k].dom \in DOMAIN zoneMap
         /\ ev[k].body.ns = zoneMap[ev[k].dom].nameservers
         /\ Len(ev[k].body.ns) = 2
         /\ \A n \in 1..2 :
              /\ ev[k].body.ns[n] \notin NoNameserver
              /\ \A d \in DomainSet \ {ev[k].dom} :
                   ev[k].body.ns[n] \notin
                     {ProviderZone(d).name_servers[1], ProviderZone(d).name_servers[2]}

\* the delegation of the last domain has been changed, while the store holds
\* another domain with "null" nameservers, which was passed over
C21_Witness ==
  /\ Len(Domains) > 1
  /\ Domains[1] \in DOMAIN zoneMap
  /\ zoneMap[Domains[1]].nameservers[1] = "null"
  /\ \E k \in 1..Len(ev) :
       Delegation(ev[k]) /\ ev[k].dom = Domains[Len(Domains)]

----------------------------------------------------------------------------
(* create-records: A, AAAA, CNAME and ALIAS records *)

PlainTypes == {"A", "AAAA", "CNAME", "ALIAS"}

PlainRecord(e) ==
  e.kind = "record" /\ ~e.body.system_record /\ e.body.type \in PlainTypes

\* the request body the claim describes for a record of a plain type
PlainCopy(rec) ==
  [type    |-> "\"" \o (IF rec.type = "ALIAS" THEN "CNAME" ELSE rec.type) \o "\"",
   name    |-> "\"" \o (IF rec.name = "" THEN "@" ELSE rec.name) \o "\"",
   content |-> "\"" \o rec.content \o "\"",
   ttl     |-> "1",
   proxied |-> "false"]

\* C22: a non-system source record of type A, AAAA or CNAME is recreated with
\* the same type, name (the empty apex name written "@") and content and
\* with proxying off, an ALIAS record as a CNAME with the same name and
\* content and proxying off; the one request sent for such a record is that
\* create call, so none of the four types produces a proxied record.
C22_PlainRecordsVerbatim ==
  [][(\A k \in 1..Len(ev') :
        PlainRecord(ev'[k])
          => /\ Cardinality({j \in 1..Len(ev') : ev'[j].kind = "call"}) = 1
             /\ \A j \in 1..Len(ev') :
                  ev'[j].kind = "call"
                    => /\ IsCall(ev'[j], "cf", "POST", "dns_records")
                       /\ ev'[j].dom = ev'[k].dom
                       /\ ev'[j].body = PlainCopy(ev'[k].body))]_vars

\* an ALIAS record at the apex has been recreated as a CNAME at "@"
C22_Witness ==
  /\ created > 0
  /\ \E k \in 1..Len(ev) :
       /\ PlainRecord(ev[k])
       /\ ev[k].body.type = "ALIAS" /\ ev[k].body.name = ""
       /\ \E j \in 1..Len(ev) :
            /\ IsCall(ev[j], "cf", "POST", "dns_records") /\ ev[j].ok
            /\ ev[j].body.type = "\"CNAME\"" /\ ev[j].body.name = "\"@\""

----------------------------------------------------------------------------
(* The entries of the state store *)

\* C23: every ZoneRecord of the state store holds the zone id and the two
\* nameservers the target provider returned for a zone of that domain; no
\* entry holds an empty or "null" zone id or nameserver, whatever the
\* provider answered (an empty lookup result in the already-exists fallback
\* included).
C23_EntriesFromProvider ==
  \A d \in DOMAIN zoneMap :
    /\ zoneMap[d] = StoredZone(d)
    /\ zoneMap[d].zone_id \notin {"", "null"}
    /\ \A n \in 1..2 : zoneMap[d].nameservers[n] \notin {"", "null"}

----------------------------------------------------------------------------
(* create-records: the counters *)

NonSystemRecord(e) == e.kind = "record" /\ ~e.body.system_record

CreateCalls(evs) ==
  {j \in 1..Len(evs) : IsCall(evs[j], "cf", "POST", "dns_records")}

SuccessfulCreates(evs) == Cardinality({j \in CreateCalls(evs) : evs[j].ok})

FailedCreate(evs) == \E j \in CreateCalls(evs) : ~evs[j].ok

\* the counters start at 0 for each domain, when its records are fetched
CountersStartAtZero ==
  (pc = "fetch" /\ pc' = "records") => (created' = 0 /\ skipped' = 0)

\* C24 as stated, record by record: the counters start at 0 for each domain;
\* a non-system source record adds at most one to created + skipped; created
\* goes up by the number of successful create calls; a record whose create
\* call failed changes neither counter.  (So at the end of a domain created +
\* skipped is at most the number of its non-system records.)
C24_CountedAtMostOnce ==
  [][(/\ CountersStartAtZero
      /\ \A k \in 1..Len(ev') :
           NonSystemRecord(ev'[k])
             => /\ (created' + skipped') - (created + skipped) <= 1
                /\ created' - created = SuccessfulCreates(ev')
                /\ (FailedCreate(ev')
                      => (created' = created /\ skipped' = skipped)))]_vars

SkippedTypes == {"URL"} \cup (RecordTypes \ KnownTypes)

\* C24 amended: the counters start at 0 for each domain; a non-system source
\* record adds one to created exactly when its create call succeeded (there
\* is at most one create call for it) and one to skipped exactly when it is
\* of type URL or of an unrecognized type.  A record of another type is
\* counted at most once and not at all when its create call failed; a URL
\* record is counted in skipped, and in created as well when its placeholder
\* was created.
C24_CountedPerCounter ==
  [][(/\ CountersStartAtZero
      /\ \A k \in 1..Len(ev') :
           NonSystemRecord(ev'[k])
             => /\ Cardinality(CreateCalls(ev')) <= 1
                /\ created' - created = SuccessfulCreates(ev')
                /\ skipped' - skipped =
                     (IF ev'[k].body.type \in SkippedTypes THEN 1 ELSE 0)
                /\ (ev'[k].body.type # "URL"
                      => /\ (created' + skipped') - (created + skipped) <= 1
                         /\ (FailedCreate(ev')
                               => (created' = created /\ skipped' = skipped))))]_vars

\* a URL record at www has been counted in both counters, in a run that goes
\* on after it
C24_Witness ==
  /\ pc = "records"
  /\ created > 0
  /\ skipped > 0
  /\ \E k \in 1..Len(ev) :
       /\ UrlRecord(ev[k]) /\ ev[k].body.name = "www"
       /\ SuccessfulCreates(ev) = 1

----------------------------------------------------------------------------
(* create-records: system records *)

FlaggedSystem(e) == e.kind = "record" /\ e.body.system_record

\* C25: a source record flagged as a system record leads to no create call
\* (to no request at all) and changes neither created nor skipped, whatever
\* its type; the loop goes on with the next record.
C25_SystemRecordIgnored ==
  [][(\A k \in 1..Len(ev') :
        FlaggedSystem(ev'[k])
          => /\ \A j \in 1..Len(ev') : ev'[j].kind # "call"
             /\ calls' = calls
             /\ created' = created
             /\ skipped' = skipped
             /\ pc' = "records")]_vars

\* a URL record flagged as a system record has been passed over, after a
\* record of the same zone was created
C25_Witness ==
  /\ pc = "records"
  /\ created > 0
  /\ \E k \in 1..Len(ev) : FlaggedSystem(ev[k]) /\ ev[k].body.type = "URL"

----------------------------------------------------------------------------
(* scripts/setup-dns.sh: the DNS setup script for idlefusion.com.  It runs  *)
(* under set -euo pipefail and upserts a CNAME for the apex and for www.   *)
(* Here startStore holds the environment of the run, track.zone the CNAME  *)
(* records of the zone, i the name being worked on and hist the exit       *)
(* statuses of the runs before.                                            *)

WORKER_NAME == "idlefusion-website"

WorkerTarget == WORKER_NAME \o ".workers.dev"

\* the names given to upsert_record: "${DOMAIN}" and "www.${DOMAIN}"
DnsNames == <<"idlefusion.com", "www.idlefusion.com">>

\* what a CNAME the zone holds before the script runs can point at
DnsContents == {WorkerTarget, "old.example.net"}

DnsRecord(k, content) ==
  [id |-> "rec-" \o DnsNames[k], name |-> DnsNames[k], content |-> content]

\* the CNAME records of the zone: at most one per name
DnsZone(a, w) ==
  (IF a = "" THEN <<>> ELSE <<DnsRecord(1, a)>>)
  \o (IF w = "" THEN <<>> ELSE <<DnsRecord(2, w)>>)

RecordsAt(zone, name) ==
  SelectSeq(zone, LAMBDA r : r.name = name)

\* curl -s: the body whatever the HTTP status, nothing when the request did
\* not get through
CurlS(resp) ==
  IF resp.http = "neterr" THEN [rc |-> 6, out |-> EmptyBody]
  ELSE [rc |-> 0, out |-> resp.body]

\* GET /zones/<id>/dns_records?type=CNAME&name=<name>
DnsLookupResponses(name) ==
  { Resp("2xx", Json("true", RecordsAt(track.zone, name), "")),
    Resp("4xx", Json("false", <<>>, "authentication error")),
    Resp("neterr", EmptyBody) }

\* get_record_id: the id of the first record of the answer, and nothing
\* when there is none, when result is null or when the answer is not JSON
\* (python fails, `|| echo ""`); errexit does not reach into $( )
get_record_id(resp) ==
  LET response == CurlS(resp).out
  IN IF response.empty \/ Len(response.result) = 0 THEN ""
     ELSE response.result[1].id

\* python3 -c "... 'proxied': ${proxied} ...": the text of $proxied is read
\* as a Python expression; True and False are Python's booleans, any other
\* bare word is a NameError and python3 exits 1
PyLiteral(text) ==
  CASE text = "True"  -> [rc |-> 0, json |-> "true"]
    [] text = "False" -> [rc |-> 0, json |-> "false"]
    [] OTHER          -> [rc |-> 1, json |-> ""]

\* the payload upsert_record builds with python3 for its four arguments
DnsPayload(name, type, content, proxied) ==
  [rc   |-> PyLiteral(proxied).rc,
   body |-> [type |-> Quote(type), name |-> Quote(name),
             content |-> Quote(content), ttl |-> "1",
             proxied |-> PyLiteral(proxied).json]]

\* PUT /dns_records/<id> and POST /dns_records: the provider accepts an
\* update of a record it holds and a create at a name without a CNAME; it
\* can refuse any request, and the request can fail to get through
DnsWriteResponses(name, record_id) ==
  { Resp("4xx", Json("false", <<>>, "refused")), Resp("neterr", EmptyBody) }
  \cup (IF (record_id # "" /\ \E k \in 1..Len(track.zone) : track.zone[k].id = record_id)
           \/ (record_id = "" /\ RecordsAt(track.zone, name) = <<>>)
        THEN { Resp("2xx", Json("true", <<>>, "")) } ELSE {})

\* print('true' if data.get('success') else 'false'), "false" when the
\* answer is not JSON
PySuccess(out) == IF out.empty THEN "false" ELSE out.success

\* the zone after an accepted update or create
DnsWritten(zone, name, record_id, content) ==
  IF record_id # ""
  THEN [k \in 1..Len(zone) |->
          IF zone[k].id = record_id THEN [zone[k] EXCEPT !.content = content]
          ELSE zone[k]]
  ELSE Append(zone, [id |-> "rec-" \o name, name |-> name, content |-> content])

DnsEnvs == [CF_API_TOKEN : BOOLEAN, CF_ZONE_ID : BOOLEAN]

DnsInit ==
  /\ errexitArith = TRUE
  /\ fileExists = FALSE
  /\ zoneMap = EmptyMap
  /\ pc = "dns_start"
  /\ cmd = "setup-dns"
  /\ step = "none"
  /\ allPos = 0
  /\ i = 1
  /\ exitCode = -1
  /\ exitWhy = "-"
  /\ startStore \in DnsEnvs
  /\ calls = {}
  /\ hist = <<>>
  /\ ev = <<>>
  /\ created = 0
  /\ skipped = 0
  /\ count = 0
  /\ pending = 0
  /\ remaining = 0
  /\ \E a \in {""} \cup DnsContents, w \in {""} \cup DnsContents :
       track = [on |-> FALSE, dom |-> DnsNames[1], zone |-> DnsZone(a, w),
                source |-> <<>>, run |-> 1, after1 |-> <<>>]

\* Validation: both variables must be set
DnsValidate ==
  /\ pc = "dns_start"
  /\ IF ~startStore.CF_API_TOKEN
     THEN /\ Emit(<<Report("err", "CF_API_TOKEN_unset", "-")>>)
          /\ Exit(1, "token_unset")
     ELSE IF ~startStore.CF_ZONE_ID
     THEN /\ Emit(<<Report("err", "CF_ZONE_ID_unset", "-")>>)
          /\ Exit(1, "zone_id_unset")
     ELSE /\ Emit(<<Report("info", "header", "setup-dns")>>)
          /\ pc' = "dns_upsert"
          /\ UNCHANGED <<exitCode, exitWhy>>
  /\ i' = 1
  /\ UNCHANGED <<errexitArith, track, store, cmd, step, allPos, startStore, hist,
                 locals>>

\* upsert_record "<name>" "CNAME" "${WORKER_NAME}.workers.dev", and after the
\* second one the closing lines of the script
upsert_record ==
  /\ pc = "dns_upsert"
  /\ LET name    == DnsNames[i]
         proxied == Default("", "true")
         payload == DnsPayload(name, "CNAME", WorkerTarget, proxied)
     IN \E lresp \in DnsLookupResponses(name) :
          LET record_id == get_record_id(lresp)
              get == <<Call("cf", "GET", "dns_records_by_name", name,
                            CallOk(lresp), NoBody),
                       Answer("dns_records_by_name", name, lresp)>>
          IN IF payload.rc # 0
             THEN \* payload=$(python3 -c ...) has status 1
                  /\ Emit(get \o <<Report("stderr", "python_NameError", name)>>)
                  /\ Exit(payload.rc, "errexit")
                  /\ UNCHANGED <<i, track>>
             ELSE \E wresp \in DnsWriteResponses(name, record_id) :
                    LET response == CurlS(wresp)
                        put == IF record_id # ""
                               THEN Call("cf", "PUT", "dns_record", name, CallOk(wresp),
                                         [id |-> record_id, payload |-> payload.body])
                               ELSE Call("cf", "POST", "dns_records", name,
                                         CallOk(wresp), payload.body)
                    IN IF response.rc # 0
                       THEN /\ Emit(get \o <<put>>)
                            /\ Exit(response.rc, "errexit")
                            /\ UNCHANGED <<i, track>>
                       ELSE IF PySuccess(response.out) # "true"
                       THEN \* return 1
                            /\ Emit(get \o <<put, Report("err", "upsert_failed", name)>>)
                            /\ Exit(1, "errexit")
                            /\ UNCHANGED <<i, track>>
                       ELSE /\ Emit(get \o <<put, Report("info", "upsert_done", name)>>)
                            /\ track' = [track EXCEPT !.zone =
                                           DnsWritten(@, name, record_id, WorkerTarget)]
                            /\ IF i < Len(DnsNames)
                               THEN i' = i + 1 /\ UNCHANGED <<pc, exitCode, exitWhy>>
                               ELSE i' = i /\ Exit(0, "ok")
  /\ UNCHANGED <<errexitArith, store, cmd, step, allPos, startStore, hist, locals>>

\* the script is run once more, in whatever environment
DnsRerun ==
  /\ pc = "exited"
  /\ track.run < MaxRuns
  /\ track' = [track EXCEPT !.run = @ + 1]
  /\ hist' = Append(hist, exitCode)
  /\ startStore' \in DnsEnvs
  /\ pc' = "dns_start"
  /\ exitCode' = -1
  /\ exitWhy' = "-"
  /\ i' = 1
  /\ ev' = <<>>
  /\ calls' = {}
  /\ UNCHANGED <<errexitArith, store, cmd, step, allPos, locals>>

DnsNext == DnsValidate \/ upsert_record \/ DnsRerun

SpecDns == DnsInit /\ [][DnsNext]_vars

\* the lookup for the name found a record
LookupFound(evs, name) ==
  \E k \in 1..Len(evs) :
    /\ evs[k].kind = "answer" /\ evs[k].op = "dns_records_by_name"
    /\ evs[k].dom = name /\ evs[k].ok /\ evs[k].body.result # <<>>

\* the lookup for the name found that there is none
LookupFoundNone(evs, name) ==
  \E k \in 1..Len(evs) :
    /\ evs[k].kind = "answer" /\ evs[k].op = "dns_records_by_name"
    /\ evs[k].dom = name /\ evs[k].ok /\ evs[k].body.result = <<>>

DnsWrite(e) == e.kind = "call" /\ e.method \in {"PUT", "POST"}

\* C26: the DNS setup script upserts.  For each of the two names it sends a
\* PUT of the existing CNAME when the lookup finds one, and a POST when the
\* lookup finds none and only when the zone holds none; a failed upsert of
\* the first name ends the script before anything is done for the second;
\* a run that ends with status 0 leaves exactly one CNAME per name, pointing
\* at the worker; and a run after such a run sends no POST.
C26_DnsUpsert ==
  /\ [][(pc = "dns_upsert"
         => LET name == DnsNames[i] IN
            /\ LookupFound(ev', name)
                 => /\ \E k \in 1..Len(ev') :
                         /\ IsCall(ev'[k], "cf", "PUT", "dns_record")
                         /\ ev'[k].dom = name
                         /\ ev'[k].body.id = RecordsAt(track.zone, name)[1].id
                    /\ \A k \in 1..Len(ev') : ~IsCall(ev'[k], "cf", "POST", "dns_records")
            /\ LookupFoundNone(ev', name)
                 => \E k \in 1..Len(ev') :
                      IsCall(ev'[k], "cf", "POST", "dns_records") /\ ev'[k].dom = name
            /\ \A k \in 1..Len(ev') :
                 IsCall(ev'[k], "cf", "POST", "dns_records")
                   => RecordsAt(track.zone, name) = <<>>
            /\ (i = 1 /\ \E k \in 1..Len(ev') : DnsWrite(ev'[k]) /\ ~ev'[k].ok)
                 => (pc' = "exited" /\ exitCode' # 0))]_vars
  /\ [](cmd = "setup-dns" /\ pc = "exited" /\ exitCode = 0
        => \A n \in 1..Len(DnsNames) :
             /\ Len(RecordsAt(track.zone, DnsNames[n])) = 1
             /\ RecordsAt(track.zone, DnsNames[n])[1].content = WorkerTarget)
  /\ [](cmd = "setup-dns" /\ hist # <<>> /\ hist[Len(hist)] = 0
        => [api |-> "cf", method |-> "POST", op |-> "dns_records"] \notin calls)

====
